---- MODULE Spec2Model ----
(***************************************************************************)
(* DrawTrigger: a timer-triggered function that collects the network       *)
(* topology, renders two diagrams, uploads three artifacts to a blob       *)
(* container and then passes the daily metering gate (marker check, token, *)
(* configuration, resource resolution, usage emission, marker write).      *)
(* Invocations of main share nothing but the blob container, the UTC clock *)
(* and the marketplace ledger; the platform may overlap them.              *)
(***************************************************************************)
EXTENDS Integers, Sequences, FiniteSets, TLC

\* ---------------------------------------------------------------- bounds
\* last UTC day of the modelled clock (days are 0..MaxDay)
MaxDay == 1
\* number of invocations of main the timer fires in one behaviour
MaxInvocations == 2

Days == 0..MaxDay
\* invocation slots: the platform may overlap two invocations
Runs == {"r1", "r2"}
NoDay == -1
\* the artifacts main uploads: the topology JSON, the MLD and the HLD diagram
Artifacts == 3

VARIABLES
    day,          \* datetime.utcnow() truncated to the date
    blobs,        \* names of the marker blobs present in the container
    ledger,       \* usage events accepted by the marketplace, per day
    invocations,  \* invocations of main started so far
    billedDays,   \* days on which some run reached Billed
    run           \* per invocation slot: position in main and what it did

vars == <<day, blobs, ledger, invocations, billedDays, run>>

\* ------------------------------------------------------- pure helpers
\* f"billing/dailyRun_{today}.marker"
MarkerName(d) == <<"billing/dailyRun_", d, ".marker">>

\* the three metering variables read from os.environ
Envs == [SUBSCRIPTION_ID : BOOLEAN, RESOURCE_GROUP_NAME : BOOLEAN, PLAN_ID : BOOLEAN]
\* the value of the slot's env field before os.environ is read
NoEnv == [SUBSCRIPTION_ID |-> FALSE, RESOURCE_GROUP_NAME |-> FALSE, PLAN_ID |-> FALSE]

\* the test written with `and`: metering is skipped only when all three are absent
ConfigMissing_All(env) ==
    ~env.SUBSCRIPTION_ID /\ ~env.RESOURCE_GROUP_NAME /\ ~env.PLAN_ID

\* `if not subscription_id or not rg_name or not plan_id`
ConfigMissing(env) ==
    ~env.SUBSCRIPTION_ID \/ ~env.RESOURCE_GROUP_NAME \/ ~env.PLAN_ID

\* has_billed_today that treats every answer of the store as not found
HasBilledToday_Never(store, d, fault) ==
    IF fault THEN "error" ELSE "false"

\* has_billed_today with `except Exception: return False`
HasBilledToday_Broad(store, d, fault) ==
    IF fault THEN "false"
    ELSE IF MarkerName(d) \in store THEN "true" ELSE "false"

\* blob_client.get_blob_properties() wrapped by has_billed_today:
\* True when the blob exists, False on ResourceNotFoundError, any other
\* storage error propagates
HasBilledToday(store, d, fault) ==
    IF fault THEN "error"
    ELSE IF MarkerName(d) \in store THEN "true" ELSE "false"

\* upload_blob(b"") without overwrite
MarkOverwrite_Off == FALSE

\* the overwrite flag mark_billed_today passes to upload_blob
MarkOverwrite == TRUE

\* an upload acknowledged without the blob being stored
UploadBlob_Lost(store, name, overwrite, fault) ==
    IF fault THEN [err |-> "fault", store |-> store]
    ELSE [err |-> "none", store |-> store]

\* an upload that stores the blob and then reports a failure
UploadBlob_StoredOnFault(store, name, overwrite, fault) ==
    IF fault THEN [err |-> "fault", store |-> store \cup {name}]
    ELSE IF name \in store /\ ~overwrite THEN [err |-> "exists", store |-> store]
    ELSE [err |-> "none", store |-> store \cup {name}]

\* blob_client.upload_blob(b"", overwrite=...): with overwrite the blob is
\* created or replaced; without it an existing blob raises ResourceExistsError
UploadBlob(store, name, overwrite, fault) ==
    IF fault THEN [err |-> "fault", store |-> store]
    ELSE IF name \in store /\ ~overwrite THEN [err |-> "exists", store |-> store]
    ELSE [err |-> "none", store |-> store \cup {name}]

\* the pipeline entered whatever has_billed_today returned
AfterCheck_Always(res) == "token"

\* the branch taken after has_billed_today returned: skip or enter the pipeline
AfterCheck(res) == IF res = "true" THEN "done" ELSE "token"

\* no handler around the metering block: the error leaves main
MeteringExcept_Propagate(rec, step, result) ==
    [rec EXCEPT !.pc = "done", !.failed = step, !.outcome = result,
                !.completed = FALSE, !.raised = TRUE]

\* each call guarded on its own: the error is logged and the marker is written
MeteringExcept_Continue(rec, step, result) ==
    [rec EXCEPT !.pc = IF step \in {"token", "resolve", "emit"} THEN "mark" ELSE "done",
                !.failed = step, !.outcome = result,
                !.completed = (step \notin {"token", "resolve", "emit"})]

\* a failed call is tried a second time before the run gives up
MeteringExcept_Retry(rec, step, result) ==
    IF Cardinality({i \in 1..Len(rec.calls) : rec.calls[i] = step}) < 2
    THEN [rec EXCEPT !.pc = step]
    ELSE [rec EXCEPT !.pc = "done", !.failed = step, !.outcome = result,
                     !.completed = TRUE, !.raised = FALSE]

\* `except Exception as e` around the metering block: the error is logged and
\* main goes on to its final log line
MeteringExcept(rec, step, result) ==
    [rec EXCEPT !.pc = "done", !.failed = step, !.outcome = result,
                !.completed = TRUE, !.raised = FALSE]

\* an early `return` of main after a failed stage
EarlyReturn(rec, stage) ==
    [rec EXCEPT !.pc = "done", !.failed = stage, !.outcome = "Aborted",
                !.completed = FALSE]

\* the state of a slot before main is invoked
Fresh ==
    [pc |-> "idle", calls |-> <<>>, checkDay |-> NoDay, checkRes |-> "none",
     env |-> NoEnv, emitDay |-> NoDay, markDay |-> NoDay, markErr |-> "none",
     failed |-> "none", outcome |-> "none", uploads |-> 0, uploaded |-> 0, alone |-> FALSE,
     completed |-> FALSE, raised |-> FALSE]

Init ==
    /\ day = 0
    /\ blobs = {}
    /\ ledger = [d \in Days |-> 0]
    /\ invocations = 0
    /\ billedDays = {}
    /\ run = [r \in Runs |-> Fresh]

Set(r, rec) == run' = [run EXCEPT ![r] = rec]

\* ------------------------------------------------------------ actions
\* the UTC date rolls over
Tick ==
    /\ day < MaxDay
    /\ day' = day + 1
    /\ UNCHANGED <<blobs, ledger, invocations, billedDays, run>>

\* no other invocation is in flight when slot r is invoked
Alone(r) == \A q \in Runs \ {r} : run[q].pc \in {"idle", "done"}

\* the timer fires main
Start(r) ==
    /\ run[r].pc \in {"idle", "done"}
    /\ invocations < MaxInvocations
    /\ invocations' = invocations + 1
    /\ Set(r, [Fresh EXCEPT !.pc = "subs", !.alone = Alone(r)])
    /\ UNCHANGED <<day, blobs, ledger, billedDays>>

\* one of the stages before the uploads: on failure main logs and returns
Stage(r, at, next) ==
    /\ run[r].pc = at
    /\ \E ok \in BOOLEAN :
         Set(r, IF ok THEN [run[r] EXCEPT !.pc = next] ELSE EarlyReturn(run[r], at))
    /\ UNCHANGED <<day, blobs, ledger, invocations, billedDays>>

ListSubscriptions(r) == Stage(r, "subs", "topo")
CollectTopology(r) == Stage(r, "topo", "json")
WriteTopologyJson(r) == Stage(r, "json", "diagram")
GenerateDiagrams(r) == Stage(r, "diagram", "storage")
\* DRAWING_STORAGE_URL and DRAWING_CONTAINER_NAME must both be set
StorageConfig(r) == Stage(r, "storage", "upload")

\* upload_file without its try/except: a failed upload ends main
UploadFile_Abort(r) ==
    /\ run[r].pc = "upload"
    /\ \E ok \in BOOLEAN :
         LET ups == run[r].uploads + 1
             rec == [run[r] EXCEPT !.uploads = ups, !.uploaded = IF ok THEN @ + 1 ELSE @]
         IN Set(r, IF ok THEN [rec EXCEPT !.pc = IF ups = Artifacts THEN "check" ELSE "upload"]
                   ELSE [rec EXCEPT !.pc = "done", !.failed = "upload", !.raised = TRUE])
    /\ UNCHANGED <<day, blobs, ledger, invocations, billedDays>>

\* upload_file, called once per artifact and swallowing its own error:
\* uploads counts the calls, uploaded the calls that stored their blob.
\* The artifact names start with the timestamp, never with "billing/".
UploadFile(r) ==
    /\ run[r].pc = "upload"
    /\ \E ok \in BOOLEAN :
         LET ups == run[r].uploads + 1
         IN Set(r, [run[r] EXCEPT !.uploads = ups,
                                  !.uploaded = IF ok THEN @ + 1 ELSE @,
                                  !.pc = IF ups = Artifacts THEN "check" ELSE "upload"])
    /\ UNCHANGED <<day, blobs, ledger, invocations, billedDays>>

Called(rec, step) == [rec EXCEPT !.calls = Append(rec.calls, step)]

\* has_billed_today
CheckMarker(r) ==
    /\ run[r].pc = "check"
    /\ \E fault \in BOOLEAN :
         LET res == HasBilledToday(blobs, day, fault)
             rec == [Called(run[r], "check") EXCEPT !.checkDay = day, !.checkRes = res]
         IN Set(r, IF res = "error"
                   THEN MeteringExcept(rec, "check", "FailedMarkerQuery")
                   ELSE [rec EXCEPT !.pc = AfterCheck(res),
                                    !.outcome = IF AfterCheck(res) = "done"
                                                THEN "SkippedAlreadyBilled" ELSE "none",
                                    !.completed = (AfterCheck(res) = "done")])
    /\ UNCHANGED <<day, blobs, ledger, invocations, billedDays>>

\* get_msi_token
AcquireToken(r) ==
    /\ run[r].pc = "token"
    /\ \E ok \in BOOLEAN :
         LET rec == Called(run[r], "token")
         IN Set(r, IF ok THEN [rec EXCEPT !.pc = "config"]
                   ELSE MeteringExcept(rec, "token", "FailedAuth"))
    /\ UNCHANGED <<day, blobs, ledger, invocations, billedDays>>

\* the three os.environ.get calls and the test on them
RequireConfig(r) ==
    /\ run[r].pc = "config"
    /\ \E env \in Envs :
         LET rec == [Called(run[r], "config") EXCEPT !.env = env]
         IN Set(r, IF ConfigMissing(env)
                   THEN [rec EXCEPT !.pc = "done", !.outcome = "SkippedMissingConfig",
                                    !.completed = TRUE]
                   ELSE [rec EXCEPT !.pc = "resolve"])
    /\ UNCHANGED <<day, blobs, ledger, invocations, billedDays>>

\* get_managed_app_resource_id
ResolveResource(r) ==
    /\ run[r].pc = "resolve"
    /\ \E ok \in BOOLEAN :
         LET rec == Called(run[r], "resolve")
         IN Set(r, IF ok THEN [rec EXCEPT !.pc = "emit"]
                   ELSE MeteringExcept(rec, "resolve", "FailedResolution"))
    /\ UNCHANGED <<day, blobs, ledger, invocations, billedDays>>

\* emit_meter_event behind a second marker check: nothing is posted when the
\* marker of the day has appeared since the first check
EmitUsage_Recheck(r) ==
    /\ run[r].pc = "emit"
    /\ \E ok \in BOOLEAN :
         LET rec == Called(run[r], "emit")
             post == ok /\ MarkerName(day) \notin blobs
         IN /\ Set(r, IF ok THEN [rec EXCEPT !.pc = "mark", !.emitDay = day]
                      ELSE MeteringExcept(rec, "emit", "FailedEmission"))
            /\ ledger' = IF post THEN [ledger EXCEPT ![day] = @ + 1] ELSE ledger
    /\ UNCHANGED <<day, blobs, invocations, billedDays>>

\* emit_meter_event: effectiveStartTime is utcnow at the call
EmitUsage(r) ==
    /\ run[r].pc = "emit"
    /\ \E ok \in BOOLEAN :
         LET rec == Called(run[r], "emit")
         IN /\ Set(r, IF ok THEN [rec EXCEPT !.pc = "mark", !.emitDay = day]
                      ELSE MeteringExcept(rec, "emit", "FailedEmission"))
            /\ ledger' = IF ok THEN [ledger EXCEPT ![day] = @ + 1] ELSE ledger
    /\ UNCHANGED <<day, blobs, invocations, billedDays>>

\* mark_billed_today, then the final log lines of main
WriteMarker(r) ==
    /\ run[r].pc = "mark"
    /\ \E fault \in BOOLEAN :
         LET up == UploadBlob(blobs, MarkerName(day), MarkOverwrite, fault)
             rec == [Called(run[r], "mark") EXCEPT !.markDay = day, !.markErr = up.err]
         IN /\ blobs' = up.store
            /\ Set(r, IF up.err = "none"
                      THEN [rec EXCEPT !.pc = "done", !.outcome = "Billed",
                                       !.completed = TRUE]
                      ELSE MeteringExcept(rec, "mark", "FailedMarkerWrite"))
            /\ billedDays' = IF up.err = "none" THEN billedDays \cup {day} ELSE billedDays
    /\ UNCHANGED <<day, ledger, invocations>>

Next ==
    \/ Tick
    \/ \E r \in Runs : Start(r)
    \/ \E r \in Runs : ListSubscriptions(r)
    \/ \E r \in Runs : CollectTopology(r)
    \/ \E r \in Runs : WriteTopologyJson(r)
    \/ \E r \in Runs : GenerateDiagrams(r)
    \/ \E r \in Runs : StorageConfig(r)
    \/ \E r \in Runs : UploadFile(r)
    \/ \E r \in Runs : CheckMarker(r)
    \/ \E r \in Runs : AcquireToken(r)
    \/ \E r \in Runs : RequireConfig(r)
    \/ \E r \in Runs : ResolveResource(r)
    \/ \E r \in Runs : EmitUsage(r)
    \/ \E r \in Runs : WriteMarker(r)

Spec == Init /\ [][Next]_vars

TypeOK ==
    /\ day \in Days
    /\ invocations \in 0..MaxInvocations
    /\ billedDays \subseteq Days
\* ------------------------------------------------------------ claims
Markers == {d \in Days : MarkerName(d) \in blobs}
Has(rec, step) == \E i \in 1..Len(rec.calls) : rec.calls[i] = step
Count(rec, step) == Cardinality({i \in 1..Len(rec.calls) : rec.calls[i] = step})
Pipeline == <<"check", "token", "config", "resolve", "emit", "mark">>

\* C1: for every UTC day D at most one usage event is accepted for D,
\* whatever the invocations of main on D did.
C1_AtMostOneEmissionPerDay == \A d \in Days : ledger[d] <= 1

\* C2: a run whose marker check returned true calls neither the token
\* provider, the resolver nor the emitter, and each such call of a run
\* comes after a marker check of the same run that returned false.
C2_NoCallsWhenBilled ==
    \A r \in Runs :
        /\ run[r].checkRes = "true" =>
              /\ run[r].calls = <<"check">>
              /\ run[r].pc = "done" /\ run[r].outcome = "SkippedAlreadyBilled"
        /\ (Has(run[r], "token") \/ Has(run[r], "resolve") \/ Has(run[r], "emit")) =>
              /\ run[r].calls[1] = "check"
              /\ run[r].checkRes = "false"
              /\ Count(run[r], "check") = 1

C2_Witness ==
    \E r \in Runs : run[r].checkRes = "true" /\ run[r].pc = "done"
                    /\ run[r].checkDay \in Markers

\* C3: with a metering variable absent, the run reaches SkippedMissingConfig
\* without a call to the token endpoint.
C3_MissingConfigNoToken ==
    \A r \in Runs : run[r].outcome = "SkippedMissingConfig" => ~Has(run[r], "token")

\* C4: once a run reached Billed on day D the marker of D stays in the
\* container: no step removes a blob, and every later marker check made on D
\* that gets an answer from the store gets true.
C4_BilledStaysBilled ==
    /\ [](billedDays \subseteq Markers)
    /\ [][/\ blobs \subseteq blobs'
          /\ \A r \in Runs :
                (run[r].pc = "check" /\ run'[r].pc # "check" /\ day \in billedDays)
                   => run'[r].checkRes \in {"true", "error"}]_vars

C4_Witness ==
    \E r \in Runs : /\ run[r].checkRes = "true"
                    /\ run[r].checkDay \in billedDays
                    /\ run[r].alone
                    /\ \E q \in Runs \ {r} : /\ run[q].outcome = "Billed"
                                              /\ run[q].markDay = run[r].checkDay

\* C5: every invocation of main that returns has executed the marker check,
\* also when an earlier stage failed.
C5_GateAlwaysRuns ==
    \A r \in Runs : run[r].pc = "done" => Has(run[r], "check")

MeteringSteps == {"check", "token", "resolve", "emit", "mark"}

\* C6: whichever metering step fails, main does not raise and reaches its
\* final completion step.
C6_MeteringErrorsCaught ==
    \A r \in Runs :
        /\ ~run[r].raised
        /\ run[r].failed \in MeteringSteps => run[r].pc = "done" /\ run[r].completed

C6_Witness ==
    \E r, q \in Runs : /\ run[r].failed = "mark" /\ run[r].completed
                       /\ run[q].failed = "check" /\ run[q].completed

\* C7: after a failed token fetch, resolution or emission the run executes no
\* later step: no emission follows a token or resolution failure, the marker
\* write is never called and the failing step leaves the container unchanged.
C7_FailureStopsPipeline ==
    /\ [](\A r \in Runs :
            run[r].failed \in {"token", "resolve", "emit"} =>
               /\ run[r].pc = "done"
               /\ run[r].calls[Len(run[r].calls)] = run[r].failed
               /\ ~Has(run[r], "mark") /\ run[r].markDay = NoDay
               /\ run[r].failed \in {"token", "resolve"} =>
                     ~Has(run[r], "emit") /\ run[r].emitDay = NoDay)
    /\ [][\A r \in Runs :
            (run[r].pc \in {"token", "resolve", "emit"} /\ run'[r] # run[r])
               => blobs' = blobs]_vars

C7_Witness ==
    \E r \in Runs : /\ run[r].failed = "emit" /\ run[r].checkRes = "false"
                    /\ ~ConfigMissing(run[r].env)
                    /\ run[r].checkDay \notin Markers

\* C8: whatever earlier runs failed at, a run that finds the marker absent,
\* reads a complete configuration and has no failing step ends in Billed
\* having emitted exactly once, with the marker of its day present.
C8_RetryBills ==
    \A r \in Runs :
        (/\ run[r].pc = "done" /\ run[r].checkRes = "false"
         /\ Has(run[r], "config") /\ ~ConfigMissing(run[r].env)
         /\ run[r].failed = "none")
        => /\ run[r].outcome = "Billed"
           /\ run[r].calls = Pipeline
           /\ Count(run[r], "emit") = 1
           /\ ledger[run[r].emitDay] >= 1
           /\ run[r].markDay \in Markers
           /\ run[r].markDay \in billedDays

C8_Witness ==
    \E r \in Runs, q \in Runs :
        /\ run[r].outcome = "Billed" /\ run[r].alone
        /\ run[q].outcome \in {"FailedAuth", "FailedResolution", "FailedEmission"}
        /\ run[q].checkDay = run[r].checkDay
        /\ run[r].checkDay = run[r].markDay
        /\ run[r].checkDay \in Markers
        /\ ledger[run[r].checkDay] = 1

\* C9: a marker write that fails after a successful emission ends the run in
\* FailedMarkerWrite and leaves the container as it was, so a later run of
\* the same day that finds the marker absent enters the pipeline again.
C9_MarkerWriteFailure ==
    /\ [](\A r \in Runs :
            /\ run[r].outcome = "FailedMarkerWrite" =>
                  /\ run[r].calls = Pipeline /\ run[r].failed = "mark"
                  /\ run[r].pc = "done"
                  /\ ledger[run[r].emitDay] >= 1
            /\ (run[r].checkRes = "false" /\ run[r].pc = "done") => Has(run[r], "token"))
    /\ [][\A r \in Runs :
            (run[r].pc = "mark" /\ run'[r].outcome = "FailedMarkerWrite")
               => blobs' = blobs]_vars

\* two usage events for one day: a run emitted after the run before it had
\* failed to write the marker
C9_Witness ==
    \E r \in Runs, q \in Runs :
        /\ run[q].outcome = "FailedMarkerWrite"
        /\ run[r].alone
        /\ run[r].checkRes = "false"
        /\ run[r].checkDay = run[q].markDay
        /\ run[r].emitDay = run[q].emitDay
        /\ ledger[run[r].emitDay] = 2
        /\ run[r].pc = "mark"
        /\ run[q].markDay \notin Markers

\* C10: a marker write is idempotent: when the marker of the day exists the
\* write succeeds and leaves the container as it is, and when it does not
\* exist the write adds that single marker; it never fails because the
\* marker exists.
C10_MarkIdempotent ==
    /\ [](\A r \in Runs : run[r].markErr # "exists")
    /\ [][\A r \in Runs :
            (run[r].pc = "mark" /\ run'[r].outcome = "Billed")
               => /\ blobs' = blobs \cup {MarkerName(day)}
                  /\ MarkerName(day) \in blobs => blobs' = blobs]_vars

\* two runs both wrote the marker of the same day
C10_Witness ==
    \E r \in Runs, q \in Runs :
        /\ r # q
        /\ run[r].outcome = "Billed" /\ run[q].outcome = "Billed"
        /\ run[r].markDay = run[q].markDay
        /\ Markers = {run[r].markDay}

\* a prefix of the pipeline
IsPrefix(s, t) == Len(s) <= Len(t) /\ \A i \in 1..Len(s) : s[i] = t[i]

\* at least one of the three metering variables is absent
AnyAbsent(env) ==
    \E k \in {"SUBSCRIPTION_ID", "RESOURCE_GROUP_NAME", "PLAN_ID"} : ~env[k]

\* C11: with a metering variable absent the run makes no resolution call and
\* no emission call, writes no marker and main completes normally.
C11_MissingConfigDisablesMetering ==
    /\ [](\A r \in Runs :
            (Has(run[r], "config") /\ AnyAbsent(run[r].env)) =>
               /\ run[r].outcome = "SkippedMissingConfig"
               /\ run[r].pc = "done" /\ run[r].completed /\ ~run[r].raised
               /\ run[r].failed = "none"
               /\ ~Has(run[r], "resolve") /\ ~Has(run[r], "emit") /\ ~Has(run[r], "mark")
               /\ run[r].emitDay = NoDay /\ run[r].markDay = NoDay)
    /\ [][\A r \in Runs :
            (run[r].pc = "config" /\ run'[r].pc = "done")
               => blobs' = blobs /\ ledger' = ledger]_vars

C11_Witness ==
    \E r \in Runs : /\ run[r].outcome = "SkippedMissingConfig"
                    /\ run[r].env.SUBSCRIPTION_ID /\ run[r].env.RESOURCE_GROUP_NAME
                    /\ ~run[r].env.PLAN_ID
                    /\ run[r].completed

\* C12: when no two invocations overlap at all (each was invoked after the
\* one before it had returned), at most one usage event is accepted per day.
C12_NoOverlapAtMostOne ==
    (invocations = 2 /\ \A r \in Runs : run[r].pc # "idle" /\ run[r].alone)
       => \A d \in Days : ledger[d] <= 1

\* run r has posted its usage event
Emitted(r) == run[r].emitDay # NoDay

\* C13: two runs that both got false from the marker check of the same day
\* and whose calls all succeed both emit: two usage events are accepted for
\* the day, both runs end in Billed and the day has its one marker.
C13_RaceDoubleBills ==
    \A r \in Runs, q \in Runs :
        (/\ r # q
         /\ run[r].checkRes = "false" /\ run[q].checkRes = "false"
         /\ run[r].checkDay = run[q].checkDay
         /\ Emitted(r) /\ Emitted(q)
         /\ run[r].emitDay = run[q].emitDay)
        => /\ ledger[run[r].emitDay] >= 2
           /\ (run[r].pc = "done" /\ run[r].failed = "none") =>
                 run[r].outcome = "Billed" /\ run[r].markDay \in Markers

C13_Witness ==
    \E r \in Runs, q \in Runs :
        /\ r # q
        /\ run[r].outcome = "Billed" /\ run[q].outcome = "Billed"
        /\ run[r].checkRes = "false" /\ run[q].checkRes = "false"
        /\ run[r].checkDay = run[q].checkDay
        /\ run[r].emitDay = run[r].checkDay /\ run[q].emitDay = run[r].checkDay
        /\ run[r].markDay = run[r].checkDay /\ run[q].markDay = run[r].checkDay
        /\ ledger[run[r].checkDay] = 2
        /\ Markers = {run[r].checkDay}

\* C14: the container changes only by the marker write of a run that has
\* posted its usage event: a run that was skipped or whose token, resolution
\* or emission failed never calls the marker write, and every marker present
\* was written by a run that reached Billed.
C14_MarkerOnlyAfterEmission ==
    /\ [](/\ Markers \subseteq billedDays
          /\ Markers # {} => \E d \in Days : ledger[d] >= 1
          /\ \A r \in Runs :
                Has(run[r], "mark") =>
                   /\ run[r].calls = Pipeline
                   /\ run[r].checkRes = "false" /\ ~ConfigMissing(run[r].env)
                   /\ Emitted(r) /\ run[r].failed \in {"none", "mark"})
    /\ [][blobs' # blobs =>
            \E r \in Runs : /\ run[r].pc = "mark" /\ Emitted(r)
                            /\ ledger[run[r].emitDay] >= 1
                            /\ run'[r].outcome = "Billed"
                            /\ blobs' = blobs \cup {MarkerName(day)}]_vars

C14_Witness ==
    \E r \in Runs : /\ run[r].outcome = "Billed"
                    /\ run[r].markDay \in Markers
                    /\ ledger[run[r].emitDay] >= 1

\* C15: the marker check returns false only when the marker is absent; any
\* other storage error is a query failure, after which the run calls neither
\* token, resolver nor emitter, writes no marker and completes without raising.
C15_QueryFailureDistinct ==
    /\ [](\A r \in Runs :
            run[r].checkRes = "error" =>
               /\ run[r].calls = <<"check">>
               /\ run[r].outcome = "FailedMarkerQuery" /\ run[r].failed = "check"
               /\ run[r].pc = "done" /\ run[r].completed /\ ~run[r].raised
               /\ run[r].emitDay = NoDay /\ run[r].markDay = NoDay)
    /\ [][\A r \in Runs :
            (run[r].pc = "check" /\ run'[r].pc # "check") =>
               /\ run'[r].checkRes = "false" => MarkerName(day) \notin blobs
               /\ run'[r].checkRes = "error" => blobs' = blobs /\ ledger' = ledger]_vars

C15_Witness ==
    \E r \in Runs : /\ run[r].checkRes = "error" /\ run[r].completed
                    /\ run[r].checkDay \in Markers

\* C16: the calls of a run are a prefix of check, token, (configuration,)
\* resolve, emit, mark: each is made at most once, in that order, and a
\* failed call is the last one of its run.
C16_StrictPipeline ==
    \A r \in Runs :
        /\ IsPrefix(run[r].calls, Pipeline)
        /\ \A step \in MeteringSteps : Count(run[r], step) <= 1
        /\ run[r].failed \in MeteringSteps =>
              /\ run[r].calls # <<>>
              /\ run[r].calls[Len(run[r].calls)] = run[r].failed
              /\ run[r].pc = "done"

C16_Witness ==
    \E r \in Runs, q \in Runs :
        /\ run[r].calls = Pipeline /\ run[r].outcome = "Billed"
        /\ run[q].failed = "resolve"
        /\ run[q].calls = <<"check", "token", "config", "resolve">>

\* C17: in every run that reaches Billed the day of the marker written, the
\* day queried by the marker check and the day of the emitted event are the
\* same, also when the UTC date rolls over during the run.
C17_SingleBillingDay ==
    \A r \in Runs :
        run[r].outcome = "Billed" =>
           /\ run[r].markDay = run[r].checkDay
           /\ run[r].emitDay = run[r].checkDay

\* the stages of main before the first upload
BeforeUploads == {"idle", "subs", "topo", "json", "diagram", "storage"}

\* C18: once the uploads have begun, all three are attempted whatever their
\* outcomes and the marker check is executed next; no upload outcome ends
\* the run or touches the container's markers or the ledger.
C18_UploadsDoNotGateMetering ==
    /\ [](\A r \in Runs :
            /\ run[r].uploaded <= run[r].uploads /\ run[r].uploads <= Artifacts
            /\ run[r].pc \in BeforeUploads => run[r].uploads = 0
            /\ run[r].pc = "upload" => run[r].uploads < Artifacts
            /\ (run[r].pc = "done" /\ run[r].uploads > 0) =>
                  /\ run[r].uploads = Artifacts
                  /\ Has(run[r], "check")
                  /\ ~run[r].raised
            /\ Has(run[r], "check") => run[r].uploads = Artifacts)
    /\ [][\A r \in Runs :
            (run[r].pc = "upload" /\ run'[r] # run[r]) =>
               /\ run'[r].pc \in {"upload", "check"}
               /\ blobs' = blobs /\ ledger' = ledger]_vars

\* a usage event posted by a run all of whose uploads failed
C18_Witness ==
    \E r \in Runs : /\ run[r].uploads = Artifacts /\ run[r].uploaded = 0
                    /\ Emitted(r) /\ ledger[run[r].emitDay] >= 1
====
